---- MODULE Spec2Model ----
(***************************************************************************)
(* Model of the sparrow strip/square packing optimizer: the greedy         *)
(* constructor (optimizer/lbf.rs), the exploration loop with disruption    *)
(* (optimizer/explore.rs), the compression loop (optimizer/compress.rs)    *)
(* and the placement search (sample/search.rs, sample/search3.rs).         *)
(*                                                                         *)
(* Geometry.  The collision detection engine is an external collaborator.  *)
(* Items are axis-aligned rectangles w x h standing on the base line of    *)
(* the strip; a transformation is an x translation and a rotation by 0 or  *)
(* 90 degrees (which exchanges the two extents).  Lengths are fixed-point  *)
(* numbers of resolution 1; a product with a ratio is rounded.             *)
(***************************************************************************)
EXTENDS Integers, Sequences, FiniteSets, TLC

VARIABLES
    pc,                 \* position of the driver thread
    inst,               \* index of the instance being solved
    cfg,                \* ExplorationConfig / CompressionConfig / CLI flags
    kill,               \* Terminator::kill()
    strip_width,        \* sep.prob.strip_width()
    fixed_height,       \* sep.prob.instance.base_strip.fixed_height
    placed_items,       \* prob.layout.placed_items : key -> PlacedItem
    item_demand_qtys,   \* prob.item_demand_qtys
    to_place,           \* sorted_item_indices still to place (construct)
    searched,           \* search_placement was called by the constructor
    current_width, best_width, feasible_sols,
    infeas_sol_pool, solution_pool,
    selected_idx,       \* index of the pool entry rolled back to
    swap,               \* locals of disrupt_solution (pk1, pk2, dt*_old, dt*_new)
    best_sol, n_failed_attempts, elapsed,   \* compression_phase locals
    reports,            \* snapshot handed to the SolutionListener by the last step
    moved,              \* calls of move_item made by the last step
    resized_once,       \* layout after the first of two successive width changes
    search_in,          \* arguments of search_placement: layout, item, ref_pk, config, seed
    rng,                \* state of the driver's random number generator
    samples,            \* the Vec of sampled transformations
    evals,              \* evaluation of each sample, once a worker has produced it
    workers,            \* the sample each rayon worker is evaluating, 0 when idle
    completed,          \* sample indices in the order their evaluations finished
    best_samples,       \* BestSamples::samples
    search_out,         \* what search_placement returned
    evaluators,         \* the evaluator instance each rayon worker's job holds, 0 for none
    n_factory_calls     \* calls of evaluator_factory made by map_init so far

vars == <<pc, inst, cfg, kill, strip_width, fixed_height, placed_items,
          item_demand_qtys, to_place, searched, current_width, best_width,
          feasible_sols, infeas_sol_pool, solution_pool, selected_idx, swap,
          best_sol, n_failed_attempts, elapsed, reports, moved, resized_once,
          search_in, rng, samples, evals, workers, completed, best_samples,
          search_out, evaluators, n_factory_calls>>

(***************************************************************************)
(* Bounds of the model.                                                    *)
(***************************************************************************)
MaxX == 3           \* translations sampled by the search lie in 0..MaxX
MaxPool == 2        \* failed separations kept before only success or kill remain
MaxCmprFails == 3   \* failed compression attempts explored
NWorkers == 2       \* threads of the rayon pool

(***************************************************************************)
(* Option values.                                                          *)
(***************************************************************************)
None == <<>>
Some(v) == <<v>>
IsSome(o) == Len(o) = 1
Unwrap(o) == o[1]

Max(a, b) == IF a >= b THEN a ELSE b
Min(a, b) == IF a <= b THEN a ELSE b

\* round(w * num / den), the fixed-point image of an f32 product
MulRatio(w, num, den) == (2 * w * num + den) \div (2 * den)

(***************************************************************************)
(* Instances: items (shape, allowed rotations, demand, optional fixed      *)
(* placement) and the base strip.                                          *)
(***************************************************************************)
DT(x, r) == [x |-> x, r |-> r]

Item(w, h, rots, qty, fixed) ==
    [w |-> w, h |-> h, rots |-> rots, qty |-> qty, fixed_placement |-> fixed]

Instances == <<
    \* only locked items
    [items |-> << Item(2, 1, {0}, 1, Some(DT(0, 0))),
                  Item(1, 1, {0}, 1, Some(DT(2, 0))),
                  Item(1, 1, {0}, 0, Some(DT(1, 0))) >>,
     width |-> 3, fixed_height |-> 3],
    \* one crystal and two free items of different shape, one free to rotate
    [items |-> << Item(1, 1, {0}, 1, Some(DT(1, 0))),
                  Item(2, 1, {0, 1}, 1, None),
                  Item(1, 1, {0}, 1, None) >>,
     width |-> 3, fixed_height |-> 4],
    \* three units of one item, the first a crystal, in a square too small for them
    [items |-> << Item(1, 1, {0}, 3, Some(DT(0, 0))) >>,
     width |-> 3, fixed_height |-> 2],
    \* free items only, the larger one declared last
    [items |-> << Item(1, 1, {0}, 1, None),
                  Item(2, 1, {0}, 1, None) >>,
     width |-> 3, fixed_height |-> 4],
    \* only locked items, two crystals declared on top of each other
    [items |-> << Item(2, 1, {0}, 1, Some(DT(0, 0))),
                  Item(1, 1, {0}, 1, Some(DT(1, 0))) >>,
     width |-> 3, fixed_height |-> 3],
    \* a crystal that holds more than 90% of the area, and two small free units
    [items |-> << Item(2, 10, {0}, 1, Some(DT(0, 0))),
                  Item(1, 1, {0}, 2, None) >>,
     width |-> 3, fixed_height |-> 10],
    \* three free units, one of them large enough to contain another
    [items |-> << Item(2, 1, {0}, 1, None),
                  Item(1, 1, {0}, 2, None) >>,
     width |-> 3, fixed_height |-> 3]
>>

Configs == {
    [early_termination |-> TRUE,  max_conseq_failed_attempts |-> Some(1)],
    [early_termination |-> FALSE, max_conseq_failed_attempts |-> Some(0)],
    [early_termination |-> FALSE, max_conseq_failed_attempts |-> None]
}

\* the runs explored: an instance and a configuration
Runs == {r \in [inst : 1..Len(Instances), cfg : Configs] :
            /\ r.cfg.max_conseq_failed_attempts = None => r.inst = 1
            /\ r.inst = 5 => r.cfg.max_conseq_failed_attempts = Some(0)
            /\ r.inst = 6 => r.cfg.max_conseq_failed_attempts = Some(1)
            /\ r.inst # 7}

instance == Instances[inst]
items == instance.items
ItemIds == 1..Len(items)

(***************************************************************************)
(* Geometry of a placed item and the overlap measure ("loss").             *)
(***************************************************************************)
XExt(id, r) == IF r = 0 THEN items[id].w ELSE items[id].h
YExt(id, r) == IF r = 0 THEN items[id].h ELSE items[id].w

XMin(pi) == pi.d_transf.x
XMax(pi) == pi.d_transf.x + XExt(pi.item_id, pi.d_transf.r)

\* length over which two placed items penetrate each other
PairOverlap(a, b) == Max(0, Min(XMax(a), XMax(b)) - Max(XMin(a), XMin(b)))

\* length by which a placed item sticks out of the container w x h
BoundaryOverlap(pi, w, h) ==
    Max(0, XMax(pi) - w) + Max(0, 0 - XMin(pi))
    + Max(0, YExt(pi.item_id, pi.d_transf.r) - h)

RECURSIVE SumOver(_, _, _)
SumOver(S, f, acc) ==
    IF S = {} THEN acc
    ELSE LET e == CHOOSE e \in S : TRUE IN SumOver(S \ {e}, f, acc + f[e])

ItemLoss(pis, k, w, h) ==
    BoundaryOverlap(pis[k], w, h)
    + SumOver(DOMAIN pis \ {k},
              [j \in DOMAIN pis \ {k} |-> PairOverlap(pis[k], pis[j])], 0)

TotalLoss(pis, w, h) ==
    SumOver(DOMAIN pis, [k \in DOMAIN pis |-> ItemLoss(pis, k, w, h)], 0)

IsFeasible(pis, w, h) ==
    /\ \A k \in DOMAIN pis : BoundaryOverlap(pis[k], w, h) = 0
    /\ \A k, j \in DOMAIN pis : k # j => PairOverlap(pis[k], pis[j]) = 0

(***************************************************************************)
(* Layout: a slot table with generation counters; a key is <<slot, gen>>.  *)
(***************************************************************************)
Slots(pis) == {k[1] : k \in DOMAIN pis}

PItem(id, dt, locked) == [item_id |-> id, d_transf |-> dt, is_locked |-> locked]

\* Layout::place_item: a new placement is unlocked and takes the next free slot
LayoutPlace(pis, id, dt) ==
    LET k == <<Cardinality(DOMAIN pis) + 1, 0>>
    IN  [j \in DOMAIN pis \cup {k} |-> IF j = k THEN PItem(id, dt, FALSE) ELSE pis[j]]

Unlocked(pis) == {k \in DOMAIN pis : ~pis[k].is_locked}

CountOf(pis, id) == Cardinality({k \in DOMAIN pis : pis[k].item_id = id})

(***************************************************************************)
(* SPSolution: what SPProblem::save records and restore puts back.         *)
(***************************************************************************)
Save == [strip_width |-> strip_width, placed_items |-> placed_items,
         fixed_height |-> fixed_height]

SolLoss(sol) == TotalLoss(sol.placed_items, sol.strip_width, sol.fixed_height)

(***************************************************************************)
(* Greedy constructor, optimizer/lbf.rs.                                   *)
(***************************************************************************)
\* SPProblem::place_item: registers the placement and decrements the demand
ProbPlace(st, id, dt) ==
    [pis |-> LayoutPlace(st.pis, id, dt),
     dem |-> [st.dem EXCEPT ![id] = @ - 1]]

\* a lookup that never finds the placement to lock
FirstUnlockedOf_NotFound(pis, id) == None

\* the first placement, in slot order, of item id that is not locked yet
FirstUnlockedOf(pis, id) ==
    LET C == {k \in DOMAIN pis : pis[k].item_id = id /\ ~pis[k].is_locked}
    IN  IF C = {} THEN None
        ELSE Some(CHOOSE k \in C : \A j \in C : k[1] <= j[1])

\* a turn that places the fixed unit without taking it off the demand
EnforceOne_KeepDemand(st, id) ==
    IF ~IsSome(items[id].fixed_placement) \/ st.dem[id] = 0 THEN st
    ELSE LET pis == LayoutPlace(st.pis, id, Unwrap(items[id].fixed_placement))
         IN  [pis |-> [pis EXCEPT ![Unwrap(FirstUnlockedOf(pis, id))].is_locked = TRUE],
              dem |-> st.dem]

\* one turn of the loop of enforce_fixed_items
EnforceOne(st, id) ==
    IF ~IsSome(items[id].fixed_placement) THEN st
    ELSE IF st.dem[id] > 0
    THEN LET placed == ProbPlace(st, id, Unwrap(items[id].fixed_placement))
             found  == FirstUnlockedOf(placed.pis, id)
         IN  IF IsSome(found)
             THEN [placed EXCEPT !.pis[Unwrap(found)].is_locked = TRUE]
             ELSE placed
    ELSE st

RECURSIVE EnforceFrom(_, _)
EnforceFrom(st, id) ==
    IF id > Len(items) THEN st ELSE EnforceFrom(EnforceOne(st, id), id + 1)

enforce_fixed_items(pis, dem) == EnforceFrom([pis |-> pis, dem |-> dem], 1)

\* convex_hull_area and squared diameter of a rectangle
ConvexHullArea(id) == items[id].w * items[id].h
Diameter2(id) == items[id].w * items[id].w + items[id].h * items[id].h

\* (convex_hull_area * diameter)^2: orders items as convex_hull_area * diameter does
Largeness2(id) == ConvexHullArea(id) * ConvexHullArea(id) * Diameter2(id)

\* position of id in the stable descending sort by convex_hull_area * diameter
SortRank(id) ==
    Cardinality({j \in ItemIds : \/ Largeness2(j) > Largeness2(id)
                                 \/ Largeness2(j) = Largeness2(id) /\ j < id}) + 1

SortedItemIds == [r \in ItemIds |-> CHOOSE id \in ItemIds : SortRank(id) = r]

RepeatN(id, n) == [i \in 1..n |-> id]

RECURSIVE FlatMapDemand(_, _)
FlatMapDemand(dem, r) ==
    IF r > Len(items) THEN <<>>
    ELSE RepeatN(SortedItemIds[r], dem[SortedItemIds[r]]) \o FlatMapDemand(dem, r + 1)

\* a unit list expanded by the declared quantities, fixed units included
sorted_item_indices_DeclaredQty(dem) == FlatMapDemand([id \in ItemIds |-> items[id].qty], 1)

sorted_item_indices(dem) == FlatMapDemand(dem, 1)

\* a find_placement that takes whatever sample the search returns
ClearPlacements_AnyResult(pis, id, w, h) == [x : 0..MaxX, r : items[id].rots]

\* transformations at which the search can report SampleEval::Clear for item id
ClearPlacements(pis, id, w, h) ==
    {dt \in [x : 0..MaxX, r : items[id].rots] :
        LET pi == PItem(id, dt, FALSE)
        IN  /\ BoundaryOverlap(pi, w, h) = 0
            /\ \A k \in DOMAIN pis : PairOverlap(pi, pis[k]) = 0}

\* assertions::strip_width_is_in_check: a ceiling relative to the initial width
StripWidthCeiling == 2
strip_width_is_in_check(w) == w <= StripWidthCeiling * instance.width

\* SPProblem::fit_strip: the tightest strip around the placements
FitWidth(pis) ==
    IF DOMAIN pis = {} THEN 0
    ELSE LET k == CHOOSE k \in DOMAIN pis : \A j \in DOMAIN pis : XMax(pis[k]) >= XMax(pis[j])
         IN  XMax(pis[k])

EmptyLayout == [k \in {} |-> 0]
NoSol == [strip_width |-> 0, placed_items |-> EmptyLayout, fixed_height |-> 0]
NoSwap == [pk1 |-> None, pk2 |-> None, dt1_old |-> None, dt1_new |-> None,
           dt2_old |-> None, dt2_new |-> None]
NoReport == [kind |-> "none", sol |-> NoSol]
NoMove == <<>>

searchVars == <<search_in, rng, samples, evals, workers, completed, best_samples,
                search_out, evaluators, n_factory_calls>>

NoSearch == [seed |-> 0, ref |-> None, table |-> 1, n_coord_descents |-> 0,
             container_ok |-> FALSE, parallel |-> FALSE]

SearchIdle ==
    /\ search_in = NoSearch
    /\ rng = 0
    /\ samples = <<>>
    /\ evals = <<>>
    /\ workers = [w \in 1..NWorkers |-> 0]
    /\ completed = <<>>
    /\ best_samples = <<>>
    /\ search_out = None
    /\ evaluators = [w \in 1..NWorkers |-> 0]
    /\ n_factory_calls = 0

Init ==
    /\ SearchIdle
    /\ \E r \in Runs : inst = r.inst /\ cfg = r.cfg
    /\ pc = "construct"
    /\ kill = FALSE
    /\ strip_width = Instances[inst].width
    /\ fixed_height = Instances[inst].fixed_height
    /\ placed_items = EmptyLayout
    /\ item_demand_qtys = [id \in 1..Len(Instances[inst].items) |-> Instances[inst].items[id].qty]
    /\ to_place = <<>>
    /\ searched = FALSE
    /\ current_width = 0
    /\ best_width = 0
    /\ feasible_sols = <<>>
    /\ infeas_sol_pool = <<>>
    /\ solution_pool = <<>>
    /\ selected_idx = 0
    /\ swap = NoSwap
    /\ best_sol = NoSol
    /\ n_failed_attempts = 0
    /\ elapsed = 0
    /\ reports = NoReport
    /\ moved = NoMove
    /\ resized_once = None

explVars == <<current_width, best_width, feasible_sols, infeas_sol_pool,
              solution_pool, selected_idx, swap>>
cmprVars == <<best_sol, n_failed_attempts, elapsed>>

\* construct, up to the list of units to place: enforce_fixed_items and the sort
ConstructStart ==
    /\ pc = "construct"
    /\ LET st == enforce_fixed_items(placed_items, item_demand_qtys)
       IN  /\ placed_items' = st.pis
           /\ item_demand_qtys' = st.dem
           /\ to_place' = sorted_item_indices(st.dem)
    /\ pc' = "place"
    /\ UNCHANGED <<inst, cfg, kill, strip_width, fixed_height, searched,
                   explVars, cmprVars>>
    /\ reports' = NoReport
    /\ moved' = NoMove
    /\ resized_once' = None
    /\ UNCHANGED searchVars

\* place_item on the next unit: the search found a clear transformation
PlaceItemFound ==
    /\ pc = "place"
    /\ to_place # <<>>
    /\ \E dt \in ClearPlacements(placed_items, Head(to_place), strip_width, fixed_height) :
          LET st == ProbPlace([pis |-> placed_items, dem |-> item_demand_qtys],
                              Head(to_place), dt)
          IN  /\ placed_items' = st.pis
              /\ item_demand_qtys' = st.dem
    /\ to_place' = Tail(to_place)
    /\ searched' = TRUE
    /\ UNCHANGED <<pc, inst, cfg, kill, strip_width, fixed_height,
                   explVars, cmprVars>>
    /\ reports' = NoReport
    /\ moved' = NoMove
    /\ resized_once' = None
    /\ UNCHANGED searchVars

\* place_item on the next unit: no clear sample, the strip is widened by 1.2
PlaceItemExpand ==
    /\ pc = "place"
    /\ to_place # <<>>
    /\ strip_width' = MulRatio(strip_width, 12, 10)
    /\ pc' = IF strip_width_is_in_check(strip_width') THEN "place" ELSE "panic"
    /\ searched' = TRUE
    /\ UNCHANGED <<inst, cfg, kill, fixed_height, placed_items, item_demand_qtys,
                   to_place, explVars, cmprVars>>
    /\ reports' = NoReport
    /\ moved' = NoMove
    /\ resized_once' = None
    /\ UNCHANGED searchVars

\* the end of construct: fit_strip; optimize then hands the problem to the separator
ConstructFinish ==
    /\ pc = "place"
    /\ to_place = <<>>
    /\ strip_width' = FitWidth(placed_items)
    /\ pc' = "explore"
    /\ UNCHANGED <<inst, cfg, kill, fixed_height, placed_items, item_demand_qtys,
                   to_place, searched, explVars, cmprVars>>
    /\ reports' = NoReport
    /\ moved' = NoMove
    /\ resized_once' = None
    /\ UNCHANGED searchVars

(***************************************************************************)
(* Separator (optimizer/separator.rs): width change, move, rollback and    *)
(* the separation procedure, as the specification describes them.          *)
(***************************************************************************)
\* twice the x coordinate of the centre of a placed item
Centre2(pi) == XMin(pi) + XMax(pi)

\* the transformation change_strip_width gives a placement
ResizedTransf(pi, old_width, new_width, split_pos) ==
    IF pi.is_locked THEN pi.d_transf
    ELSE IF IsSome(split_pos)
    THEN IF Centre2(pi) > 2 * Unwrap(split_pos)
         THEN [pi.d_transf EXCEPT !.x = @ - (old_width - new_width)]
         ELSE pi.d_transf
    ELSE IF old_width > 0
    THEN [pi.d_transf EXCEPT !.x = MulRatio(@, new_width, old_width)]
    ELSE pi.d_transf

\* Separator::change_strip_width: the layout after the resize
change_strip_width(pis, old_width, new_width, split_pos) ==
    [k \in DOMAIN pis |->
        [pis[k] EXCEPT !.d_transf = ResizedTransf(pis[k], old_width, new_width, split_pos)]]

\* Separator::move_item: remove and reinsert; the slot is reused with the next
\* generation and the new placement is unlocked
MovedKey(k) == <<k[1], k[2] + 1>>
move_item(pis, k, dt) ==
    [j \in (DOMAIN pis \ {k}) \cup {MovedKey(k)} |->
        IF j = MovedKey(k) THEN PItem(pis[k].item_id, dt, FALSE) ELSE pis[j]]

\* the demand vector SPProblem::restore recomputes from the restored layout
RestoredDemand(pis) == [id \in ItemIds |-> items[id].qty - CountOf(pis, id)]

\* layouts Separator::separate can end in: unlocked items moved to sampled
\* transformations, never ending worse than it started; keys are fresh
Rekeyed(pis) ==
    [k \in {<<s, 0>> : s \in Slots(pis)} |->
        pis[CHOOSE j \in DOMAIN pis : j[1] = k[1]]]

SeparateOutcomes(pis, w, h) ==
    IF TotalLoss(pis, w, h) = 0 THEN {pis}
    ELSE LET base == Rekeyed(pis)
             cand == {f \in [Unlocked(base) -> [x : 0..MaxX, r : {0, 1}]] :
                         \A k \in Unlocked(base) : f[k].r \in items[base[k].item_id].rots}
             lay(f) == [k \in DOMAIN base |->
                           IF k \in DOMAIN f THEN [base[k] EXCEPT !.d_transf = f[k]]
                           ELSE base[k]]
         IN  {base} \cup
             {lay(f) : f \in {g \in cand : TotalLoss(lay(g), w, h) <= TotalLoss(pis, w, h)}}

(***************************************************************************)
(* Exploration phase, optimizer/explore.rs.                                *)
(***************************************************************************)
ENABLE_ADAPTIVE_SQUARE_RECOVERY == TRUE

\* config.shrink_step, in percent
ShrinkStep == 50

Report(kind, sol) == [kind |-> kind, sol |-> sol]

SolOf(pis, w, h) == [strip_width |-> w, placed_items |-> pis, fixed_height |-> h]

Last(seq) == seq[Len(seq)]

InsertAt(seq, idx, e) ==
    [i \in 1..(Len(seq) + 1) |->
        IF i < idx THEN seq[i] ELSE IF i = idx THEN e ELSE seq[i - 1]]

\* an insertion that always appends
BinarySearchIdx_Append(pool, loss) == {Len(pool) + 1}

\* indices binary_search_by can answer with (Ok: any equal entry, Err: the
\* insertion point); 1-based
BinarySearchIdx(pool, loss) ==
    LET eq == {i \in 1..Len(pool) : pool[i].loss = loss}
    IN  IF eq # {} THEN eq
        ELSE {Cardinality({i \in 1..Len(pool) : pool[i].loss < loss}) + 1}

\* max_conseq_failed_attempts.unwrap_or(usize::MAX) reached by a pool of length n
CapReached(n) ==
    /\ IsSome(cfg.max_conseq_failed_attempts)
    /\ n >= Unwrap(cfg.max_conseq_failed_attempts)

\* exploration_phase up to the loop: force the square, snapshot, report
ExplStart ==
    /\ pc = "explore"
    /\ LET start_size == fixed_height
           pis == change_strip_width(placed_items, strip_width, start_size, None)
       IN  /\ placed_items' = pis
           /\ strip_width' = start_size
           /\ current_width' = start_size
           /\ best_width' = start_size
           /\ feasible_sols' = <<SolOf(pis, start_size, fixed_height)>>
           /\ reports' = Report("ExplFeas", SolOf(pis, start_size, fixed_height))
    /\ infeas_sol_pool' = <<>>
    /\ pc' = "expl_loop"
    /\ UNCHANGED <<inst, cfg, kill, fixed_height, item_demand_qtys, to_place, searched,
                   solution_pool, selected_idx, swap, cmprVars>>
    /\ moved' = NoMove
    /\ resized_once' = None
    /\ UNCHANGED searchVars

\* the terminator fires (time limit or interrupt)
Kill ==
    /\ pc \in {"expl_loop", "compress"}
    /\ ~kill
    /\ kill' = TRUE
    /\ UNCHANGED <<pc, inst, cfg, strip_width, fixed_height, placed_items,
                   item_demand_qtys, to_place, searched, explVars, cmprVars>>
    /\ reports' = NoReport
    /\ moved' = NoMove
    /\ resized_once' = None
    /\ UNCHANGED searchVars

\* a test that also records a width equal to the best one
ShouldRecord_OrEqual(cw, bw) == cw <= bw

\* the test that records a new feasible solution
ShouldRecord(cw, bw) == cw < bw

\* a width change that leaves the height alone
SquareHeight_Kept(next_width, height) == height

\* fixed_height = next_width: the square constraint at a width change
SquareHeight(next_width, height) == next_width

\* a second call that shrinks from the old width once more
ShrinkTwice_Again(pis, w, next_width) ==
    change_strip_width(change_strip_width(pis, w, next_width, None),
                       w, next_width, None)

\* the two successive change_strip_width(next_width, None) of the success branch
ShrinkTwice(pis, w, next_width) ==
    change_strip_width(change_strip_width(pis, w, next_width, None),
                       next_width, next_width, None)

\* a rollback that always takes the best entry of the pool
\* |N(0, stddev)| in thousandths, as drawn from sep.rng: values below, at and
\* above the clamp, and beyond 1
AbsSamples == {0, 500, 998, 999, 1000, 3000}

\* the clamp .min(0.999) on the sample, in thousandths
SampleClamp == 999

SelectedIdx_Unclamped(sample, len) == (sample * len) \div 1000

\* (sample.abs().min(0.999) * infeas_sol_pool.len() as f32) as usize: the
\* 0-based index of the pool entry to roll back to
SelectedIdx(sample, len) == (Min(sample, SampleClamp) * len) \div 1000

selected_sol_First(pool, idx) == pool[1].sol

\* the pool entry picked for the rollback
selected_sol(pool, idx) == pool[idx].sol

\* an iteration whose separate call ends with loss 0
ExplSeparateFeasible ==
    /\ pc = "expl_loop"
    /\ ~kill
    /\ \E pis \in SeparateOutcomes(placed_items, strip_width, fixed_height) :
          /\ TotalLoss(pis, strip_width, fixed_height) = 0
          /\ LET local_best == SolOf(pis, strip_width, fixed_height)
                 next_width == MulRatio(current_width, 100 - ShrinkStep, 100)
                 once == change_strip_width(pis, strip_width, next_width, None)
             IN  /\ IF ShouldRecord(current_width, best_width)
                    THEN /\ best_width' = current_width
                         /\ feasible_sols' = Append(feasible_sols, local_best)
                         /\ reports' = Report("ExplFeas", local_best)
                    ELSE /\ reports' = NoReport
                         /\ UNCHANGED <<best_width, feasible_sols>>
                 /\ resized_once' = Some(once)
                 /\ fixed_height' = SquareHeight(next_width, fixed_height)
                 /\ placed_items' = ShrinkTwice(pis, strip_width, next_width)
                 /\ strip_width' = next_width
                 /\ current_width' = next_width
    /\ infeas_sol_pool' = <<>>
    /\ pc' = "expl_loop"
    /\ moved' = NoMove
    /\ UNCHANGED <<inst, cfg, kill, item_demand_qtys, to_place, searched,
                   solution_pool, selected_idx, swap, cmprVars>>
    /\ UNCHANGED searchVars

\* an iteration whose separate call ends with loss > 0, up to the rollback
ExplSeparateInfeasible ==
    /\ pc = "expl_loop"
    /\ ~kill
    /\ Len(infeas_sol_pool) < MaxPool
    /\ \E pis \in SeparateOutcomes(placed_items, strip_width, fixed_height) :
          /\ TotalLoss(pis, strip_width, fixed_height) > 0
          /\ LET local_best == SolOf(pis, strip_width, fixed_height)
                 total_loss == TotalLoss(pis, strip_width, fixed_height)
             IN  /\ reports' = Report("ExplInfeas", local_best)
                 /\ \E idx \in BinarySearchIdx(infeas_sol_pool, total_loss) :
                       infeas_sol_pool' =
                           InsertAt(infeas_sol_pool, idx, [sol |-> local_best, loss |-> total_loss])
                 /\ IF CapReached(Len(solution_pool))
                    THEN IF ENABLE_ADAPTIVE_SQUARE_RECOVERY
                         THEN LET next_width == MulRatio(current_width, 200 + ShrinkStep, 200)
                              IN  /\ fixed_height' = SquareHeight(next_width, fixed_height)
                                  /\ placed_items' =
                                         change_strip_width(pis, strip_width, next_width, None)
                                  /\ strip_width' = next_width
                                  /\ current_width' = next_width
                                  /\ solution_pool' = <<>>
                                  /\ pc' = "expl_loop"
                                  /\ UNCHANGED selected_idx
                         ELSE /\ pc' = "expl_end"
                              /\ placed_items' = pis
                              /\ UNCHANGED <<fixed_height, strip_width, current_width,
                                             solution_pool, selected_idx>>
                    ELSE /\ \E sample \in AbsSamples :
                               selected_idx' = SelectedIdx(sample, Len(infeas_sol_pool')) + 1
                         /\ placed_items' = pis
                         /\ pc' = "expl_rollback"
                         /\ UNCHANGED <<fixed_height, strip_width, current_width, solution_pool>>
    /\ UNCHANGED <<inst, cfg, kill, item_demand_qtys, to_place, searched, best_width,
                   feasible_sols, swap, cmprVars>>
    /\ moved' = NoMove
    /\ resized_once' = None
    /\ UNCHANGED searchVars

\* sep.rollback(selected_sol, None)
ExplRollback ==
    /\ pc = "expl_rollback"
    /\ LET sol == selected_sol(infeas_sol_pool, selected_idx)
       IN  /\ placed_items' = sol.placed_items
           /\ strip_width' = sol.strip_width
           /\ item_demand_qtys' = RestoredDemand(sol.placed_items)
    /\ pc' = "disrupt"
    /\ UNCHANGED <<inst, cfg, kill, fixed_height, to_place, searched, explVars,
                   cmprVars>>
    /\ reports' = NoReport
    /\ moved' = NoMove
    /\ resized_once' = None
    /\ UNCHANGED searchVars

\* the loop ends on kill
ExplKilled ==
    /\ pc = "expl_loop"
    /\ kill
    /\ pc' = "expl_end"
    /\ UNCHANGED <<inst, cfg, kill, strip_width, fixed_height, placed_items,
                   item_demand_qtys, to_place, searched, explVars, cmprVars>>
    /\ reports' = NoReport
    /\ moved' = NoMove
    /\ resized_once' = None
    /\ UNCHANGED searchVars

(***************************************************************************)
(* disrupt_solution, optimizer/explore.rs.                                 *)
(***************************************************************************)
\* config.large_item_ch_area_cutoff_percentile, in percent
LargeItemCutoffPercentile == 90

total_convex_hull_area ==
    SumOver(ItemIds, [id \in ItemIds |-> ConvexHullArea(id) * items[id].qty], 0)

\* position of id in the stable descending sort by convex hull area
AreaRank(id) ==
    Cardinality({j \in ItemIds : \/ ConvexHullArea(j) > ConvexHullArea(id)
                                 \/ ConvexHullArea(j) = ConvexHullArea(id) /\ j < id}) + 1

sorted_items_by_ch_area == [r \in ItemIds |-> CHOOSE id \in ItemIds : AreaRank(id) = r]

RECURSIVE CutoffFrom(_, _)
CutoffFrom(r, cumulative_ch_area) ==
    IF r > Len(items) THEN 0
    ELSE LET id == sorted_items_by_ch_area[r]
             cum == cumulative_ch_area + ConvexHullArea(id) * items[id].qty
         IN  IF cum * 100 > total_convex_hull_area * LargeItemCutoffPercentile
             THEN ConvexHullArea(id)
             ELSE CutoffFrom(r + 1, cum)

ch_area_cutoff == CutoffFrom(1, 0)

large_items(pis) ==
    {k \in DOMAIN pis : ~pis[k].is_locked /\ ConvexHullArea(pis[k].item_id) >= ch_area_cutoff}

Abs(a) == IF a >= 0 THEN a ELSE 0 - a

\* approx_eq!(f32, area, area1, epsilon = area1 * 0.01)
ApproxEqArea(id, id1) ==
    100 * Abs(ConvexHullArea(id) - ConvexHullArea(id1)) <= ConvexHullArea(id1)

\* approx_eq!(f32, diameter, diameter1, epsilon = diameter1 * 0.01), on squares
ApproxEqDiameter(id, id1) ==
    /\ 9801 * Diameter2(id1) <= 10000 * Diameter2(id)
    /\ 10000 * Diameter2(id) <= 10201 * Diameter2(id1)

\* the large items different enough from the first: area and diameter both
\* off by more than 1%
distinct_items(pis, pk1) ==
    {k \in large_items(pis) :
        /\ ~ApproxEqArea(pis[k].item_id, pis[pk1].item_id)
        /\ ~ApproxEqDiameter(pis[k].item_id, pis[pk1].item_id)}

\* a fallback that picks among all placements, the first one included
second_items_AnyPlacement(pis, pk1) ==
    IF distinct_items(pis, pk1) # {} THEN distinct_items(pis, pk1) ELSE DOMAIN pis

\* the candidates for the second item: different enough from the first, or else
\* the fallback
second_items(pis, pk1) ==
    LET distinct == distinct_items(pis, pk1)
    IN  IF distinct # {} THEN distinct
        ELSE {k \in DOMAIN pis : k # pk1}

\* uniform_sampler::convert_sample_to_closest_feasible: the rotation is snapped to
\* the nearest allowed one
convert_sample_to_closest_feasible(dt, id) ==
    IF dt.r \in items[id].rots THEN dt
    ELSE [dt EXCEPT !.r = CHOOSE r \in items[id].rots : TRUE]

\* the record of one call of move_item: the key and placement handed over
MoveCall(pis, k) ==
    [pk |-> k, live |-> k \in DOMAIN pis,
     is_locked |-> IF k \in DOMAIN pis THEN pis[k].is_locked ELSE FALSE]

\* move_item rejects (aborts on) a locked placement or a dead key
MoveRejected(pis, k) == k \notin DOMAIN pis \/ pis[k].is_locked

\* practically_contained_items: placements colliding with pk_c whose point of
\* inaccessibility lies in the shape of pk_c
practically_contained_items(pis, pk_c) ==
    {k \in DOMAIN pis :
        /\ k # pk_c
        /\ PairOverlap(pis[k], pis[pk_c]) > 0
        /\ 2 * XMin(pis[pk_c]) <= Centre2(pis[k])
        /\ Centre2(pis[k]) <= 2 * XMax(pis[pk_c])}

\* d_transf . (dt_new^-1 . dt_old), made feasible
ReflowTransf(pi, dt_old, dt_new) ==
    convert_sample_to_closest_feasible(
        [x |-> pi.d_transf.x + (dt_old.x - dt_new.x),
         r |-> (pi.d_transf.r + dt_old.r + dt_new.r) % 2],
        pi.item_id)

MinKey(S) == CHOOSE k \in S : \A j \in S : k[1] <= j[1]

\* the loop over items_to_move: the layout and the calls of move_item made
RECURSIVE ReflowLoop(_, _, _, _, _)
ReflowLoop(pis, todo, dt_old, dt_new, calls) ==
    IF todo = {} THEN [pis |-> pis, calls |-> calls, ok |-> TRUE]
    ELSE LET k == MinKey(todo)
         IN  IF MoveRejected(pis, k)
             THEN [pis |-> pis, calls |-> Append(calls, MoveCall(pis, k)), ok |-> FALSE]
             ELSE ReflowLoop(move_item(pis, k, ReflowTransf(pis[k], dt_old, dt_new)),
                             todo \ {k}, dt_old, dt_new, Append(calls, MoveCall(pis, k)))

\* a reflow set that leaves the counterpart swapped item in
items_to_move_WithCounterpart(pis, pk_c, pk_other) ==
    {k \in practically_contained_items(pis, pk_c) : ~pis[k].is_locked}

\* items_to_move of one block of step 4
items_to_move(pis, pk_c, pk_other) ==
    {k \in practically_contained_items(pis, pk_c) : k # pk_other /\ ~pis[k].is_locked}

\* fewer than 2 movable items, or fewer than 2 items: warn and return
\* a test that counts the placements without looking at their locks
CannotDisrupt_LocksIgnored(pis) == Cardinality(DOMAIN pis) < 2

\* the two early returns of disrupt_solution
CannotDisrupt(pis) ==
    \/ Cardinality(Unlocked(pis)) < 2
    \/ Cardinality(DOMAIN pis) < 2

DisruptSkip ==
    /\ pc = "disrupt"
    /\ CannotDisrupt(placed_items)
    /\ pc' = "expl_loop"
    /\ UNCHANGED <<inst, cfg, kill, strip_width, fixed_height, placed_items,
                   item_demand_qtys, to_place, searched, current_width, best_width, feasible_sols,
                   infeas_sol_pool, solution_pool, swap, cmprVars>>
    /\ reports' = NoReport
    /\ moved' = NoMove
    /\ selected_idx' = 0
    /\ resized_once' = None
    /\ UNCHANGED searchVars

\* steps 1 to 3: choose the two items and swap them
DisruptSwap ==
    /\ pc = "disrupt"
    /\ ~CannotDisrupt(placed_items)
    /\ IF large_items(placed_items) = {}
       THEN /\ pc' = "panic"
            /\ moved' = NoMove
            /\ UNCHANGED <<placed_items, swap>>
       ELSE \E pk1 \in large_items(placed_items) :
            \E pk2 \in second_items(placed_items, pk1) :
               LET pi1 == placed_items[pk1]
                   pi2 == placed_items[pk2]
                   dt1_old == pi1.d_transf
                   dt2_old == pi2.d_transf
                   dt1_new == convert_sample_to_closest_feasible(dt2_old, pi1.item_id)
                   dt2_new == convert_sample_to_closest_feasible(dt1_old, pi2.item_id)
                   after1 == move_item(placed_items, pk1, dt1_new)
               IN  IF MoveRejected(after1, pk2)
                   THEN /\ placed_items' = after1
                        /\ moved' = <<MoveCall(placed_items, pk1), MoveCall(after1, pk2)>>
                        /\ pc' = "panic"
                        /\ UNCHANGED swap
                   ELSE /\ placed_items' = move_item(after1, pk2, dt2_new)
                        /\ moved' = <<MoveCall(placed_items, pk1), MoveCall(after1, pk2)>>
                        /\ swap' = [pk1 |-> MovedKey(pk1), pk2 |-> MovedKey(pk2),
                                    dt1_old |-> dt1_old, dt1_new |-> dt1_new,
                                    dt2_old |-> dt2_old, dt2_new |-> dt2_new]
                        /\ pc' = "reflow1"
    /\ UNCHANGED <<inst, cfg, kill, strip_width, fixed_height, item_demand_qtys,
                   to_place, searched, current_width, best_width, feasible_sols,
                   infeas_sol_pool, solution_pool, selected_idx, cmprVars>>
    /\ reports' = NoReport
    /\ resized_once' = None
    /\ UNCHANGED searchVars

\* step 4, first block: the items contained by the first swapped item follow it
DisruptReflowFirst ==
    /\ pc = "reflow1"
    /\ LET res == ReflowLoop(placed_items,
                             items_to_move(placed_items, swap.pk1, swap.pk2),
                             swap.dt1_old, swap.dt1_new, <<>>)
       IN  /\ placed_items' = res.pis
           /\ moved' = res.calls
           /\ pc' = IF res.ok THEN "reflow2" ELSE "panic"
    /\ UNCHANGED <<inst, cfg, kill, strip_width, fixed_height, item_demand_qtys,
                   to_place, searched, explVars, cmprVars>>
    /\ reports' = NoReport
    /\ resized_once' = None
    /\ UNCHANGED searchVars

\* step 4, second block
DisruptReflowSecond ==
    /\ pc = "reflow2"
    /\ LET res == ReflowLoop(placed_items,
                             items_to_move(placed_items, swap.pk2, swap.pk1),
                             swap.dt2_old, swap.dt2_new, <<>>)
       IN  /\ placed_items' = res.pis
           /\ moved' = res.calls
           /\ pc' = IF res.ok THEN "expl_loop" ELSE "panic"
    /\ UNCHANGED <<inst, cfg, kill, strip_width, fixed_height, item_demand_qtys,
                   to_place, searched, current_width, best_width, feasible_sols,
                   infeas_sol_pool, solution_pool, cmprVars>>
    /\ reports' = NoReport
    /\ selected_idx' = 0
    /\ swap' = NoSwap
    /\ resized_once' = None
    /\ UNCHANGED searchVars

(***************************************************************************)
(* disrupt_solution on instance 7 (three free units), entered as the       *)
(* exploration loop enters it: after the first failed separation and the   *)
(* rollback to the one pool entry.                                         *)
(***************************************************************************)
\* the layout exploration_phase starts from: the constructed layout
\* (2x1 at 0, the units at 2 and 3, width 4) resized to fixed_height
DisruptStartLayout ==
    [k \in {<<1, 0>>, <<2, 0>>, <<3, 0>>} |->
        IF k[1] = 1 THEN PItem(1, DT(0, 0), FALSE) ELSE PItem(2, DT(2, 0), FALSE)]

InitDisrupt ==
    /\ SearchIdle
    /\ inst = 7
    /\ cfg = [early_termination |-> TRUE, max_conseq_failed_attempts |-> Some(1)]
    /\ pc = "disrupt"
    /\ kill = FALSE
    /\ strip_width = Instances[inst].fixed_height
    /\ fixed_height = Instances[inst].fixed_height
    /\ placed_items \in {pis \in SeparateOutcomes(DisruptStartLayout, strip_width, fixed_height) :
                            TotalLoss(pis, strip_width, fixed_height) > 0}
    /\ item_demand_qtys = [id \in 1..Len(Instances[inst].items) |-> 0]
    /\ to_place = <<>>
    /\ searched = TRUE
    /\ current_width = strip_width
    /\ best_width = strip_width
    /\ feasible_sols = <<[strip_width |-> strip_width, placed_items |-> DisruptStartLayout,
                          fixed_height |-> fixed_height]>>
    /\ infeas_sol_pool = <<[sol |-> [strip_width |-> strip_width, placed_items |-> placed_items,
                                     fixed_height |-> fixed_height],
                            loss |-> TotalLoss(placed_items, strip_width, fixed_height)]>>
    /\ solution_pool = <<>>
    /\ selected_idx = 1
    /\ swap = NoSwap
    /\ best_sol = NoSol
    /\ n_failed_attempts = 0
    /\ elapsed = 0
    /\ reports = NoReport
    /\ moved = NoMove
    /\ resized_once = None

NextDisrupt ==
    \/ DisruptSwap
    \/ DisruptReflowFirst
    \/ DisruptReflowSecond

SpecDisrupt == InitDisrupt /\ [][NextDisrupt]_vars

(***************************************************************************)
(* Compression phase, optimizer/compress.rs.                               *)
(***************************************************************************)
\* config.shrink_range = (r_max, r_min), in thousandths
ShrinkRangeMax == 500
ShrinkRangeMin == 125
\* ShrinkDecayStrategy::FailureBased(r): r = 1 / FailDecayDen
FailDecayDen == 2
\* config.time_limit, in clock ticks
CmprTimeLimit == 1

RECURSIVE Pow(_, _)
Pow(b, n) == IF n = 0 THEN 1 ELSE b * Pow(b, n - 1)

\* a step that does not decay with the failures
shrink_step_size_NoDecay(n_failed, el) == ShrinkRangeMax

\* the closure shrink_step_size
shrink_step_size(n_failed, el) ==
    IF cfg.early_termination
    THEN ShrinkRangeMax \div Pow(FailDecayDen, n_failed)
    ELSE ShrinkRangeMax + (el * (ShrinkRangeMin - ShrinkRangeMax)) \div CmprTimeLimit

\* optimize: exploration_phase returns, compression starts from the last solution
ExplReturn ==
    /\ pc = "expl_end"
    /\ best_sol' = Last(feasible_sols)
    /\ n_failed_attempts' = 0
    /\ elapsed' = 0
    /\ kill' = FALSE
    /\ pc' = "compress"
    /\ current_width' = 0
    /\ best_width' = 0
    /\ feasible_sols' = <<>>
    /\ infeas_sol_pool' = <<>>
    /\ solution_pool' = <<>>
    /\ selected_idx' = 0
    /\ swap' = NoSwap
    /\ moved' = NoMove
    /\ UNCHANGED <<inst, cfg, strip_width, fixed_height, placed_items,
                   item_demand_qtys, to_place, searched>>
    /\ reports' = NoReport
    /\ resized_once' = None
    /\ UNCHANGED searchVars

\* time passes between two attempts
Tick ==
    /\ pc = "compress"
    /\ ~cfg.early_termination
    /\ elapsed <= CmprTimeLimit
    /\ elapsed' = elapsed + 1
    /\ UNCHANGED <<pc, inst, cfg, kill, strip_width, fixed_height, placed_items,
                   item_demand_qtys, to_place, searched, explVars, best_sol,
                   n_failed_attempts>>
    /\ reports' = NoReport
    /\ moved' = NoMove
    /\ resized_once' = None
    /\ UNCHANGED searchVars

\* the while condition fails: compression_phase returns best_sol
CmprReturn ==
    /\ pc = "compress"
    /\ kill \/ shrink_step_size(n_failed_attempts, elapsed) < ShrinkRangeMin
    /\ pc' = "done"
    /\ UNCHANGED <<inst, cfg, kill, strip_width, fixed_height, placed_items,
                   item_demand_qtys, to_place, searched, explVars, cmprVars>>
    /\ reports' = NoReport
    /\ moved' = NoMove
    /\ resized_once' = None
    /\ UNCHANGED searchVars

\* an attempt that resets the widths but leaves the layout of the previous
\* attempt in place
CmprRestore_NoRollback ==
    /\ pc = "compress"
    /\ ~kill
    /\ shrink_step_size(n_failed_attempts, elapsed) >= ShrinkRangeMin
    /\ fixed_height' = SquareHeight(best_sol.strip_width, fixed_height)
    /\ strip_width' = best_sol.strip_width
    /\ pc' = "cmpr_shrink"
    /\ UNCHANGED <<inst, cfg, kill, placed_items, item_demand_qtys, to_place, searched,
                   explVars, cmprVars>>
    /\ reports' = NoReport
    /\ moved' = NoMove
    /\ resized_once' = None
    /\ UNCHANGED searchVars

\* attempt_to_compress up to the rollback
CmprRestore ==
    /\ pc = "compress"
    /\ ~kill
    /\ shrink_step_size(n_failed_attempts, elapsed) >= ShrinkRangeMin
    /\ fixed_height' = SquareHeight(best_sol.strip_width, fixed_height)
    /\ strip_width' = best_sol.strip_width
    /\ placed_items' = best_sol.placed_items
    /\ item_demand_qtys' = RestoredDemand(best_sol.placed_items)
    /\ pc' = "cmpr_shrink"
    /\ UNCHANGED <<inst, cfg, kill, to_place, searched, explVars, cmprVars>>
    /\ reports' = NoReport
    /\ moved' = NoMove
    /\ resized_once' = None
    /\ UNCHANGED searchVars

\* a shrink with the sign of the step reversed
cmpr_new_width_Grown(w, r_shrink) == (w * (1000 + r_shrink)) \div 1000

\* new_width = init.strip_width() * (1.0 - r_shrink), r_shrink in thousandths:
\* the product truncated to the grid, below w for every r_shrink > 0 as the
\* f32 product is
cmpr_new_width(w, r_shrink) == (w * (1000 - r_shrink)) \div 1000

\* the layout attempt_to_compress hands to separate
CmprShrunk(split_pos) ==
    change_strip_width(placed_items, strip_width,
        cmpr_new_width(best_sol.strip_width,
                       shrink_step_size(n_failed_attempts, elapsed)),
        Some(split_pos))

\* the rest of attempt_to_compress, separation succeeds: the snapshot is reported
CmprAttemptFeasible ==
    /\ pc = "cmpr_shrink"
    /\ strip_width > 0
    /\ LET new_width == cmpr_new_width(best_sol.strip_width,
                                  shrink_step_size(n_failed_attempts, elapsed))
           height == SquareHeight(new_width, fixed_height)
       IN  /\ fixed_height' = height
           /\ strip_width' = new_width
           /\ \E split_pos \in 0..(strip_width - 1) :
              \E pis \in SeparateOutcomes(CmprShrunk(split_pos), new_width, height) :
                 /\ TotalLoss(pis, new_width, height) = 0
                 /\ placed_items' = pis
                 /\ best_sol' = SolOf(pis, new_width, height)
                 /\ reports' = Report("CmprFeas", SolOf(pis, new_width, height))
    /\ pc' = "compress"
    /\ moved' = NoMove
    /\ resized_once' = None
    /\ UNCHANGED <<inst, cfg, kill, item_demand_qtys, to_place, searched, explVars,
                   n_failed_attempts, elapsed>>
    /\ UNCHANGED searchVars

\* the rest of attempt_to_compress, separation fails
CmprAttemptInfeasible ==
    /\ pc = "cmpr_shrink"
    /\ strip_width > 0
    /\ n_failed_attempts < MaxCmprFails
    /\ LET new_width == cmpr_new_width(best_sol.strip_width,
                                  shrink_step_size(n_failed_attempts, elapsed))
           height == SquareHeight(new_width, fixed_height)
       IN  /\ fixed_height' = height
           /\ strip_width' = new_width
           /\ \E split_pos \in 0..(strip_width - 1) :
              \E pis \in SeparateOutcomes(CmprShrunk(split_pos), new_width, height) :
                 /\ TotalLoss(pis, new_width, height) > 0
                 /\ placed_items' = pis
    /\ n_failed_attempts' = n_failed_attempts + 1
    /\ pc' = "compress"
    /\ reports' = NoReport
    /\ moved' = NoMove
    /\ resized_once' = None
    /\ UNCHANGED <<inst, cfg, kill, item_demand_qtys, to_place, searched, explVars,
                   best_sol, elapsed>>
    /\ UNCHANGED searchVars

Next ==
    \/ ConstructStart
    \/ PlaceItemFound
    \/ PlaceItemExpand
    \/ ConstructFinish
    \/ ExplStart
    \/ Kill
    \/ ExplSeparateFeasible
    \/ ExplSeparateInfeasible
    \/ ExplRollback
    \/ ExplKilled
    \/ DisruptSkip
    \/ DisruptSwap
    \/ DisruptReflowFirst
    \/ DisruptReflowSecond
    \/ ExplReturn
    \/ Tick
    \/ CmprReturn
    \/ CmprRestore
    \/ CmprAttemptFeasible
    \/ CmprAttemptInfeasible

Spec == Init /\ [][Next]_vars

(***************************************************************************)
(* Placement search (sample/search3.rs; sample/search.rs is its parallel   *)
(* branch).  A transformation is DT(x, 0); the layout and the item enter   *)
(* through the evaluation of every translation, search_in.table.           *)
(***************************************************************************)
Clear == [kind |-> "Clear", loss |-> 0]
Collision(l) == [kind |-> "Collision", loss |-> l]
Invalid == [kind |-> "Invalid", loss |-> 0]

KindRank(kind) == CASE kind = "Clear" -> 0 [] kind = "Collision" -> 1 [] OTHER -> 2

\* Ord for SampleEval: Clear < Collision (by loss) < Invalid
EvalLess(a, b) ==
    \/ KindRank(a.kind) < KindRank(b.kind)
    \/ a.kind = "Collision" /\ b.kind = "Collision" /\ a.loss < b.loss

\* what the collision detection engine finds for the item at translation x,
\* one table per layout and item searched
EvalTable(table, x) ==
    CASE table = 1 -> IF x = MaxX THEN Invalid ELSE Collision(IF x = 0 THEN 2 ELSE 1)
      [] table = 2 -> IF x % 2 = 0 THEN Clear ELSE Collision(x)
      [] table = 3 -> Collision(3)
      [] OTHER -> Invalid

\* evaluator.evaluate_sample(dt, upper_bound): without a bound the exact
\* evaluation; with one, an evaluation that is not below it is cut short
evaluate_sample(in, dt, upper_bound) ==
    LET e == IF dt.x \in 0..MaxX THEN EvalTable(in.table, dt.x) ELSE Invalid
    IN  IF IsSome(upper_bound) /\ ~EvalLess(e, Unwrap(upper_bound)) THEN Invalid ELSE e

\* one draw of the driver's generator
NextRng(r) == (5 * r + 3) % 8

UniformBBoxSampler_Always(lo, hi, ok) == Some([lo |-> lo, hi |-> hi])

\* UniformBBoxSampler::new: None when no translation keeps the item inside
UniformBBoxSampler(lo, hi, ok) == IF ok /\ lo <= hi THEN Some([lo |-> lo, hi |-> hi]) ELSE None

\* UniformBBoxSampler::sample: one draw, mapped into the sampler's range
Sample(sampler, r) == DT(sampler.lo + (NextRng(r) % (sampler.hi - sampler.lo + 1)), 0)

RECURSIVE DrawSamples(_, _, _, _)
DrawSamples(sampler, n, acc, r) ==
    IF n = 0 THEN [samples |-> acc, rng |-> r]
    ELSE DrawSamples(sampler, n - 1, Append(acc, Sample(sampler, r)), NextRng(r))

\* a collection that leaves the reference transformation out of the samples
CollectSamples_NoReference(in, r) ==
    LET container_sampler == UniformBBoxSampler(0, MaxX, in.container_ok)
    IN  IF IsSome(container_sampler)
        THEN DrawSamples(Unwrap(container_sampler), in.n_container_samples, <<>>, r)
        ELSE [samples |-> <<>>, rng |-> r]

\* step 1 of search_placement: the reference transformation, the focussed
\* samples, then the container samples, all drawn on the calling thread
CollectSamples(in, r) ==
    LET focussed_sampler ==
            IF IsSome(in.ref)
            THEN UniformBBoxSampler(Max(0, Unwrap(in.ref).x - 1),
                                    Min(MaxX, Unwrap(in.ref).x + 1), in.focussed_ok)
            ELSE None
        first == IF IsSome(in.ref) THEN <<Unwrap(in.ref)>> ELSE <<>>
        foc == IF IsSome(focussed_sampler)
               THEN DrawSamples(Unwrap(focussed_sampler), in.n_focussed_samples, first, r)
               ELSE [samples |-> first, rng |-> r]
        container_sampler == UniformBBoxSampler(0, MaxX, in.container_ok)
    IN  IF IsSome(container_sampler)
        THEN DrawSamples(Unwrap(container_sampler), in.n_container_samples,
                         foc.samples, foc.rng)
        ELSE foc

(***************************************************************************)
(* BestSamples (sample/best_samples.rs): at most n_coord_descents samples, *)
(* sorted by evaluation, no two within the uniqueness threshold.           *)
(***************************************************************************)
UniqueThreshold == 1

upper_bound(bs, size) == IF Len(bs) = size /\ size > 0 THEN bs[size].eval ELSE Invalid

dtransfs_are_similar(a, b) == Abs(a.x - b.x) <= UniqueThreshold /\ a.r = b.r

RemoveAt(seq, idx) == SubSeq(seq, 1, idx - 1) \o SubSeq(seq, idx + 1, Len(seq))

\* the stable sort after an accepted sample: behind every sample not worse
StableInsert(bs, s) ==
    LET notWorse == {i \in 1..Len(bs) : ~EvalLess(s.eval, bs[i].eval)}
    IN  InsertAt(bs, Cardinality(notWorse) + 1, s)

\* a buffer of capacity 0 retains nothing
report(bs, size, dt, eval) ==
    IF size = 0 \/ ~EvalLess(eval, upper_bound(bs, size)) THEN bs
    ELSE LET similar == {i \in 1..Len(bs) : dtransfs_are_similar(bs[i].dt, dt)}
             s == [dt |-> dt, eval |-> eval]
         IN  IF similar = {}
             THEN StableInsert(IF Len(bs) = size THEN RemoveAt(bs, Len(bs)) ELSE bs, s)
             ELSE LET idx == CHOOSE i \in similar : \A j \in similar : i <= j
                  IN  IF EvalLess(eval, bs[idx].eval)
                      THEN StableInsert(RemoveAt(bs, idx), s)
                      ELSE bs

best(bs) == IF bs = <<>> THEN None ELSE Some(bs[1])

(***************************************************************************)
(* refine_coord_desc (sample/coord_descent.rs) on the grid: probe the two  *)
(* neighbours, accept a strictly better one, stop when none improves.      *)
(***************************************************************************)
PreRefineSteps == 1
FinalRefineSteps == 2

RECURSIVE Descend(_, _, _, _)
Descend(in, s, steps, n) ==
    IF steps = 0 THEN [dt |-> s.dt, eval |-> s.eval, n_evals |-> n]
    ELSE LET lo == [dt |-> DT(s.dt.x - 1, s.dt.r),
                    eval |-> evaluate_sample(in, DT(s.dt.x - 1, s.dt.r), None)]
             hi == [dt |-> DT(s.dt.x + 1, s.dt.r),
                    eval |-> evaluate_sample(in, DT(s.dt.x + 1, s.dt.r), None)]
             cand == IF EvalLess(hi.eval, lo.eval) THEN hi ELSE lo
         IN  IF EvalLess(cand.eval, s.eval)
             THEN Descend(in, cand, steps - 1, n + 2)
             ELSE [dt |-> s.dt, eval |-> s.eval, n_evals |-> n + 2]

\* wiggle draws from the generator once per descent
refine_coord_desc(in, start, steps, r) ==
    LET d == Descend(in, start, steps, 0)
    IN  [dt |-> d.dt, eval |-> d.eval, n_evals |-> d.n_evals,
         rng |-> IF in.wiggle THEN NextRng(r) ELSE r]

RECURSIVE ReportAll(_, _, _)
ReportAll(bs, size, evaluated) ==
    IF evaluated = <<>> THEN bs
    ELSE ReportAll(report(bs, size, Head(evaluated).dt, Head(evaluated).eval),
                   size, Tail(evaluated))

\* the sequential branch: every evaluation is bounded by the buffer so far
RECURSIVE EvaluateSequential(_, _, _)
EvaluateSequential(in, bs, smpls) ==
    IF smpls = <<>> THEN bs
    ELSE LET eval == evaluate_sample(in, Head(smpls),
                                     Some(upper_bound(bs, in.n_coord_descents)))
         IN  EvaluateSequential(in, report(bs, in.n_coord_descents, Head(smpls), eval),
                                Tail(smpls))

\* the prerefine loop over a clone of the buffer
RECURSIVE Prerefine(_, _, _, _, _)
Prerefine(in, starts, bs, r, n) ==
    IF starts = <<>> THEN [bs |-> bs, rng |-> r, n_evals |-> n]
    ELSE LET descended == refine_coord_desc(in, Head(starts), PreRefineSteps, r)
         IN  Prerefine(in, Tail(starts),
                       report(bs, in.n_coord_descents, descended.dt, descended.eval),
                       descended.rng, n + descended.n_evals)

\* step 3 of search_placement and its return value
Refinement(in, bs, r, n_samples) ==
    LET pre == Prerefine(in, bs, bs, r, 0)
        b == best(pre.bs)
    IN  IF IsSome(b)
        THEN LET fin == refine_coord_desc(in, Unwrap(b), FinalRefineSteps, pre.rng)
             IN  [out |-> [final_sample |-> Some([dt |-> fin.dt, eval |-> fin.eval]),
                           total_evals |-> n_samples + pre.n_evals + fin.n_evals],
                  rng |-> fin.rng]
        ELSE [out |-> [final_sample |-> None, total_evals |-> n_samples + pre.n_evals],
              rng |-> pre.rng]

\* a collect() that hands the evaluations over in the order they finished
collect_AsCompleted(smpls, evs, done) ==
    [i \in 1..Len(smpls) |-> [dt |-> smpls[done[i]], eval |-> Unwrap(evs[done[i]])]]

\* the Vec that collect() builds from the parallel map: rayon's indexed
\* iterators keep the order of the source, whatever order the workers finish in
collect(smpls, evs, done) ==
    [i \in 1..Len(smpls) |-> [dt |-> smpls[i], eval |-> Unwrap(evs[i])]]

\* LBFBuilder::find_placement on the result of search_placement: a placement
\* only for a sample that evaluates Clear
find_placement(final_sample) ==
    IF IsSome(final_sample) /\ Unwrap(final_sample).eval.kind = "Clear"
    THEN Some(Unwrap(final_sample).dt)
    ELSE None

mainVars == <<pc, inst, cfg, kill, strip_width, fixed_height, placed_items,
              item_demand_qtys, to_place, searched, explVars, cmprVars, reports,
              moved, resized_once>>

SearchInputs ==
    [seed : {0, 5}, ref : {None, Some(DT(1, 0))}, table : 1..4,
     n_coord_descents : {0, 1, 2}, n_focussed_samples : {1}, n_container_samples : {2},
     focussed_ok : BOOLEAN, container_ok : BOOLEAN, wiggle : BOOLEAN, parallel : BOOLEAN]

\* a call of search_placement on some layout, item, reference, config and seed
InitSearch ==
    /\ search_in \in SearchInputs
    /\ rng = search_in.seed
    /\ samples = <<>>
    /\ evals = <<>>
    /\ workers = [w \in 1..NWorkers |-> 0]
    /\ completed = <<>>
    /\ best_samples = <<>>
    /\ search_out = None
    /\ evaluators = [w \in 1..NWorkers |-> 0]
    /\ n_factory_calls = 0
    /\ pc = "search"
    /\ inst = 1
    /\ cfg = [early_termination |-> FALSE, max_conseq_failed_attempts |-> None]
    /\ kill = FALSE
    /\ strip_width = Instances[inst].width
    /\ fixed_height = Instances[inst].fixed_height
    /\ placed_items = EmptyLayout
    /\ item_demand_qtys = [id \in 1..Len(Instances[inst].items) |-> Instances[inst].items[id].qty]
    /\ to_place = <<>>
    /\ searched = FALSE
    /\ current_width = 0
    /\ best_width = 0
    /\ feasible_sols = <<>>
    /\ infeas_sol_pool = <<>>
    /\ solution_pool = <<>>
    /\ selected_idx = 0
    /\ swap = NoSwap
    /\ best_sol = NoSol
    /\ n_failed_attempts = 0
    /\ elapsed = 0
    /\ reports = NoReport
    /\ moved = NoMove
    /\ resized_once = None

\* step 1, and in sequential mode step 2 as well
SearchCollect ==
    /\ pc = "search"
    /\ LET cs == CollectSamples(search_in, rng)
       IN  /\ samples' = cs.samples
           /\ rng' = cs.rng
           /\ evals' = [i \in 1..Len(cs.samples) |-> None]
           /\ IF search_in.parallel
              THEN /\ pc' = "search_eval"
                   /\ best_samples' = best_samples
              ELSE /\ pc' = "search_refine"
                   /\ best_samples' = EvaluateSequential(search_in, best_samples, cs.samples)
    /\ UNCHANGED <<search_in, workers, completed, search_out, evaluators,
                   n_factory_calls>>
    /\ UNCHANGED <<inst, cfg, kill, strip_width, fixed_height, placed_items,
                   item_demand_qtys, to_place, searched, explVars, cmprVars, reports,
                   moved, resized_once>>

Untaken == {i \in 1..Len(samples) : evals[i] = None /\ \A w \in 1..NWorkers : workers[w] # i}

\* a factory that hands out one evaluator for all callers
evaluator_factory_Shared(n) == 1

\* the factory closure: every call constructs a new evaluator; instances are
\* numbered in the order of their construction
evaluator_factory(n) == n + 1

\* a rayon worker takes a sample of the parallel iterator: either its job goes
\* on with the evaluator it holds, or it starts a new job of the split
\* iterator, for which map_init calls the factory
WorkerTake(w) ==
    /\ pc = "search_eval"
    /\ workers[w] = 0
    /\ \E i \in Untaken : workers' = [workers EXCEPT ![w] = i]
    /\ \/ /\ evaluators[w] # 0
          /\ UNCHANGED <<evaluators, n_factory_calls>>
       \/ /\ evaluators' = [evaluators EXCEPT ![w] = evaluator_factory(n_factory_calls)]
          /\ n_factory_calls' = n_factory_calls + 1
    /\ UNCHANGED <<search_in, rng, samples, evals, completed, best_samples, search_out>>
    /\ UNCHANGED mainVars

\* the worker's closure: evaluate_sample(dt, None) on its thread-local evaluator
WorkerFinish(w) ==
    /\ pc = "search_eval"
    /\ workers[w] # 0
    /\ evals' = [evals EXCEPT ![workers[w]] =
                    Some(evaluate_sample(search_in, samples[workers[w]], None))]
    /\ completed' = Append(completed, workers[w])
    /\ workers' = [workers EXCEPT ![w] = 0]
    /\ UNCHANGED <<search_in, rng, samples, best_samples, search_out, evaluators,
                   n_factory_calls>>
    /\ UNCHANGED mainVars

\* collect() returns once every sample is evaluated; the driver reports them
SearchReport ==
    /\ pc = "search_eval"
    /\ \A i \in 1..Len(samples) : evals[i] # None
    /\ best_samples' = ReportAll(best_samples, search_in.n_coord_descents,
                                 collect(samples, evals, completed))
    /\ pc' = "search_refine"
    /\ evaluators' = [w \in 1..NWorkers |-> 0]
    /\ UNCHANGED <<search_in, rng, samples, evals, workers, completed, search_out,
                   n_factory_calls>>
    /\ UNCHANGED <<inst, cfg, kill, strip_width, fixed_height, placed_items,
                   item_demand_qtys, to_place, searched, explVars, cmprVars, reports,
                   moved, resized_once>>

\* step 3: prerefine, final refine, return
SearchRefine ==
    /\ pc = "search_refine"
    /\ LET res == Refinement(search_in, best_samples, rng, Len(samples))
       IN  /\ search_out' = Some(res.out)
           /\ rng' = res.rng
    /\ pc' = "search_done"
    /\ UNCHANGED <<search_in, samples, evals, workers, completed, best_samples,
                   evaluators, n_factory_calls>>
    /\ UNCHANGED <<inst, cfg, kill, strip_width, fixed_height, placed_items,
                   item_demand_qtys, to_place, searched, explVars, cmprVars, reports,
                   moved, resized_once>>

NextSearch ==
    \/ SearchCollect
    \/ \E w \in 1..NWorkers : WorkerTake(w)
    \/ \E w \in 1..NWorkers : WorkerFinish(w)
    \/ SearchReport
    \/ SearchRefine

SpecSearch == InitSearch /\ [][NextSearch]_vars

(***************************************************************************)
(* Properties.                                                             *)
(***************************************************************************)
SolFeasible(sol) == IsFeasible(sol.placed_items, sol.strip_width, sol.fixed_height)

\* C1: every snapshot reported as ExplFeas or CmprFeas has loss 0: no two placed
\* items overlap and every placed item lies inside the container at the
\* snapshot's strip width, the first report of exploration_phase included.
C1_FeasibleReports ==
    reports.kind \in {"ExplFeas", "CmprFeas"} =>
        /\ SolLoss(reports.sol) = 0
        /\ SolFeasible(reports.sol)

\* C2: locked placements are never moved: every locked placement is at the fixed
\* placement its item declares, and no call of move_item made by disrupt_solution
\* is handed a locked placement.
C2_LockedNeverMoved ==
    /\ \A k \in DOMAIN placed_items :
          placed_items[k].is_locked =>
              /\ IsSome(items[placed_items[k].item_id].fixed_placement)
              /\ placed_items[k].d_transf = Unwrap(items[placed_items[k].item_id].fixed_placement)
    /\ \A i \in 1..Len(moved) : ~moved[i].is_locked

\* C3: for every item, the number of its placements plus its remaining demand is
\* its declared demand, in every state of construction, exploration (swaps and
\* reflow moves included) and compression.
C3_DemandConserved ==
    \A id \in ItemIds : CountOf(placed_items, id) + item_demand_qtys[id] = items[id].qty

C3_Witness ==
    /\ pc = "reflow2"
    /\ \E k \in DOMAIN placed_items : k[2] > 0

\* C4: the widths of feasible_sols decrease strictly, back-offs notwithstanding,
\* so its last element is the narrowest and has width best_width.
C4_StrictlyDecreasing ==
    /\ \A i \in 1..(Len(feasible_sols) - 1) :
          feasible_sols[i + 1].strip_width < feasible_sols[i].strip_width
    /\ feasible_sols # <<>> => Last(feasible_sols).strip_width = best_width

\* a second solution recorded at a width that only a back-off reaches
C4_Witness ==
    /\ Len(feasible_sols) >= 2
    /\ Last(feasible_sols).strip_width = 3
    /\ feasible_sols[1].strip_width = 4

\* the snapshots the program holds or has just reported
HeldSnapshots ==
    {feasible_sols[i] : i \in 1..Len(feasible_sols)}
    \cup {infeas_sol_pool[i].sol : i \in 1..Len(infeas_sol_pool)}
    \cup (IF reports.kind = "none" THEN {} ELSE {reports.sol})
    \cup (IF pc \in {"compress", "cmpr_shrink", "done"} THEN {best_sol} ELSE {})

\* C5: every snapshot taken or reported during exploration and compression has
\* width = fixed_height, and so has the container at every separate call.
C5_SquareSnapshots ==
    /\ \A sol \in HeldSnapshots : sol.strip_width = sol.fixed_height
    /\ pc \in {"expl_loop", "expl_rollback", "disrupt", "reflow1", "reflow2"} =>
          strip_width = fixed_height

C5_Witness ==
    /\ reports.kind = "CmprFeas"
    /\ reports.sol.strip_width < instance.fixed_height

C8_StrictCapOne ==
    (cfg.early_termination /\ cfg.max_conseq_failed_attempts = Some(1)) =>
        /\ reports.kind = "ExplInfeas" => pc = "expl_end"
        /\ pc \notin {"expl_rollback", "disrupt", "reflow1", "reflow2"}

\* what search_placement yields when the samples are evaluated and reported one
\* after the other in the order they were generated
SearchInOrder(in) ==
    LET cs == CollectSamples(in, in.seed)
        evaluated == [i \in 1..Len(cs.samples) |->
                         [dt |-> cs.samples[i],
                          eval |-> evaluate_sample(in, cs.samples[i], None)]]
        bs == ReportAll(<<>>, in.n_coord_descents, evaluated)
    IN  Refinement(in, bs, cs.rng, Len(cs.samples))

\* C9: seeded reproducibility of search_placement: the samples are all drawn
\* from the driver's generator before the parallel evaluation starts, the
\* workers leave the generator alone, and the evaluations are reported in
\* generation order, so the result and the generator's final state are those
\* of the in-order evaluation under every schedule of the workers.
C9_SeededReproducibility ==
    /\ pc \in {"search_eval", "search_refine"} =>
           /\ samples = CollectSamples(search_in, search_in.seed).samples
           /\ rng = CollectSamples(search_in, search_in.seed).rng
    /\ (pc = "search_done" /\ search_in.parallel) =>
           /\ search_out = Some(SearchInOrder(search_in).out)
           /\ rng = SearchInOrder(search_in).rng

\* a parallel search has returned a placement after the workers finished out of
\* generation order, with two dissimilar samples of equal evaluation competing
\* for the single place in the buffer
C9_Witness ==
    /\ pc = "search_done"
    /\ search_in.parallel
    /\ search_in.n_coord_descents = 1
    /\ IsSome(Unwrap(search_out).final_sample)
    /\ \E i, j \in 1..Len(completed) : i < j /\ completed[i] > completed[j]
    /\ \E i, j \in 1..Len(samples) :
           /\ ~dtransfs_are_similar(samples[i], samples[j])
           /\ evals[i] = evals[j]
           /\ Unwrap(evals[i]).kind # "Invalid"

\* every unit of the instance is a crystal
OnlyLockedItems ==
    \A id \in ItemIds : IsSome(items[id].fixed_placement) /\ items[id].qty <= 1

\* the locked configuration the instance declares
LockedConfiguration ==
    {PItem(id, Unwrap(items[id].fixed_placement), TRUE) :
        id \in {j \in ItemIds : IsSome(items[j].fixed_placement) /\ items[j].qty > 0}}

Placements(pis) == {pis[k] : k \in DOMAIN pis}

\* C10: for an instance with only locked items the constructor has nothing to
\* search for and never widens the strip, and when construct returns the layout
\* is exactly the fixed placements, each locked and at its declared
\* transformation, with no demand left, and it is feasible.
C10_OnlyLocked ==
    OnlyLockedItems =>
        /\ ~searched
        /\ pc # "panic"
        /\ pc = "place" => to_place = <<>> /\ strip_width = instance.width
        /\ pc = "explore" =>
               /\ Placements(placed_items) = LockedConfiguration
               /\ Cardinality(DOMAIN placed_items) = Cardinality(LockedConfiguration)
               /\ \A id \in ItemIds : item_demand_qtys[id] = 0
               /\ IsFeasible(placed_items, strip_width, fixed_height)

\* C11: on kill each phase returns the best feasible state recorded so far:
\* exploration_phase returns a non-empty feasible_sols whose last element is
\* the narrowest one and has loss 0, and the snapshot compression_phase works
\* from and returns has loss 0.
C11_KillReturnsBestFeasible ==
    /\ pc = "expl_end" =>
           /\ feasible_sols # <<>>
           /\ \A i \in 1..Len(feasible_sols) :
                  Last(feasible_sols).strip_width <= feasible_sols[i].strip_width
           /\ SolLoss(Last(feasible_sols)) = 0
    /\ pc \in {"compress", "cmpr_shrink", "done"} => SolLoss(best_sol) = 0

\* C12: with --early-termination a pool of max_conseq_failed_attempts failed
\* separations ends exploration_phase: the loop neither continues nor goes on
\* to a rollback once that many failures are held.
C12_EarlyTerminationCap ==
    (cfg.early_termination /\ IsSome(cfg.max_conseq_failed_attempts)) =>
        (Len(infeas_sol_pool) >= Unwrap(cfg.max_conseq_failed_attempts) =>
            pc \notin {"expl_loop", "expl_rollback", "disrupt", "reflow1", "reflow2"})

\* C13: when construct returns, no two placements overlap and every placement
\* lies inside the strip.
C13_ConstructFeasible ==
    pc = "explore" => IsFeasible(placed_items, strip_width, fixed_height)

\* C14: when the layout has fewer than 2 unlocked placements, disrupt_solution
\* returns without a move_item call, leaves the placements, the strip width
\* and the demand as they are, and the exploration loop goes to its next
\* iteration.
C14_DisruptionSkipped ==
    [][(pc = "disrupt" /\ Cardinality(Unlocked(placed_items)) < 2) =>
          /\ placed_items' = placed_items
          /\ strip_width' = strip_width
          /\ fixed_height' = fixed_height
          /\ item_demand_qtys' = item_demand_qtys
          /\ moved' = NoMove
          /\ pc' = "expl_loop"]_vars

\* the loop is back at its head after a failed separation, a rollback and a
\* disruption that had fewer than 2 unlocked placements to work with
C14_Witness ==
    /\ pc = "expl_loop"
    /\ cfg.max_conseq_failed_attempts # Some(0)
    /\ infeas_sol_pool # <<>>
    /\ Cardinality(Unlocked(placed_items)) < 2
    /\ \E i \in 1..Len(infeas_sol_pool) : infeas_sol_pool[i].sol.placed_items = placed_items

\* C15: a failed separation that brings the pool of failures to
\* max_conseq_failed_attempts is answered by the back-off: the square is
\* resized to the new current_width, the pool the failure was inserted into
\* is emptied, and there is no rollback; below the cap the loop goes on to the
\* rollback.
C15_AdaptiveBackoff ==
    (IsSome(cfg.max_conseq_failed_attempts) /\ reports.kind = "ExplInfeas") =>
        IF pc = "expl_loop"
        THEN /\ infeas_sol_pool = <<>>
             /\ strip_width = current_width
             /\ fixed_height = current_width
        ELSE /\ pc = "expl_rollback"
             /\ Len(infeas_sol_pool) < Unwrap(cfg.max_conseq_failed_attempts)

\* C17: the pool of infeasible solutions is sorted by ascending loss after
\* every insertion, also when an entry of equal loss is already there.
C17_PoolSorted ==
    \A i, j \in 1..Len(infeas_sol_pool) :
        i < j => infeas_sol_pool[i].loss <= infeas_sol_pool[j].loss

\* the pool holds two failed separations of different loss, the later one in
\* front of the earlier one
C17_Witness ==
    /\ Len(infeas_sol_pool) = 2
    /\ infeas_sol_pool[1].loss < infeas_sol_pool[2].loss
    /\ reports.kind = "ExplInfeas"
    /\ reports.sol = infeas_sol_pool[1].sol


\* C18: every snapshot held in the infeasible pool was taken at the current
\* strip width (the pool is emptied at every width change), so a rollback to
\* a pool entry leaves the strip width alone, and at the start of every
\* iteration the separator's strip width equals current_width.
C18_PoolAtCurrentWidth ==
    pc \in {"expl_loop", "expl_rollback", "disrupt", "reflow1", "reflow2"} =>
        /\ \A i \in 1..Len(infeas_sol_pool) :
               infeas_sol_pool[i].sol.strip_width = current_width
        /\ pc \in {"expl_loop", "expl_rollback"} => strip_width = current_width

\* C19: with max_conseq_failed_attempts = Some(c), c >= 1, the infeasible pool
\* never holds more than c entries during the exploration phase, and holds
\* fewer than c at the start of every iteration.
C19_PoolBoundedByCap ==
    (IsSome(cfg.max_conseq_failed_attempts)
        /\ Unwrap(cfg.max_conseq_failed_attempts) >= 1) =>
        /\ Len(infeas_sol_pool) <= Unwrap(cfg.max_conseq_failed_attempts)
        /\ pc = "expl_loop" =>
               Len(infeas_sol_pool) < Unwrap(cfg.max_conseq_failed_attempts)


\* C20: whenever a pool entry is selected for the rollback the pool is
\* non-empty and the index computed from the clamped sample lies in
\* [0, len-1], for every sample value and every pool length (selected_idx
\* holds the index counted from 1).
C20_PoolIndexValid ==
    pc = "expl_rollback" =>
        /\ infeas_sol_pool # <<>>
        /\ selected_idx - 1 \in 0..(Len(infeas_sol_pool) - 1)
        /\ \A sample \in AbsSamples :
               SelectedIdx(sample, Len(infeas_sol_pool)) \in 0..(Len(infeas_sol_pool) - 1)

C20_Witness ==
    /\ pc = "expl_rollback"
    /\ reports.kind = "ExplInfeas"
    /\ Len(infeas_sol_pool) = MaxPool
    /\ selected_idx = SelectedIdx(3000, MaxPool) + 1
    /\ selected_idx = MaxPool


NoSampleProduced == search_in.ref = None /\ ~search_in.container_ok

AllSamplesInvalid ==
    /\ samples # <<>>
    /\ \A i \in 1..Len(samples) : evaluate_sample(search_in, samples[i], None) = Invalid

FinalSample == Unwrap(search_out).final_sample

\* C16: search_placement returns None exactly when the buffer is empty after
\* the samples are reported: no sample was produced (no reference key and no
\* container sampler), the buffer capacity is 0, or every sample evaluates
\* Invalid; an empty focussed sampler alone does not make the search fail,
\* and find_placement places only for a Clear result.
C16_NonePropagated ==
    pc = "search_done" =>
        /\ FinalSample = None <=>
               \/ NoSampleProduced
               \/ search_in.n_coord_descents = 0
               \/ AllSamplesInvalid
        /\ find_placement(FinalSample) # None <=>
               (FinalSample # None /\ Unwrap(FinalSample).eval.kind = "Clear")

\* C16 as stated: None exactly when no sample was produced or the capacity is 0.
C16_NoneOnlyWithoutSamples ==
    pc = "search_done" =>
        /\ FinalSample = None <=>
               (NoSampleProduced \/ search_in.n_coord_descents = 0)
        /\ find_placement(FinalSample) # None <=>
               (FinalSample # None /\ Unwrap(FinalSample).eval.kind = "Clear")

C16_Witness ==
    /\ pc = "search_done"
    /\ NoSampleProduced
    /\ search_in.n_coord_descents > 0
    /\ samples = <<>>
    /\ FinalSample = None
    /\ find_placement(FinalSample) = None


\* C21: in disrupt_solution the two swapped placements are always different:
\* the first is a large unlocked item, the second is taken from the large
\* unlocked items whose area and diameter both differ from the first's by
\* more than 1%, and only when there is none from the placements other than
\* the first.
C21_SwappedDiffer ==
    [][(pc = "disrupt" /\ Len(moved') = 2) =>
          /\ moved'[1].pk # moved'[2].pk
          /\ moved'[1].pk \in large_items(placed_items)
          /\ moved'[1].pk \notin distinct_items(placed_items, moved'[1].pk)
          /\ IF distinct_items(placed_items, moved'[1].pk) # {}
             THEN moved'[2].pk \in distinct_items(placed_items, moved'[1].pk)
             ELSE moved'[2].pk \in DOMAIN placed_items \ {moved'[1].pk}]_vars

C21_Witness ==
    /\ pc = "reflow1"
    /\ Len(moved) = 2
    /\ moved[1].pk # moved[2].pk
    /\ swap.pk1 # swap.pk2
    /\ placed_items[swap.pk1].item_id = placed_items[swap.pk2].item_id


\* C22: whenever the layout has at least 2 unlocked placements, the set of
\* unlocked placements with convex-hull area >= ch_area_cutoff, from which
\* disrupt_solution chooses the first item, is not empty, so the choice does
\* not abort.
C22_FirstItemExists ==
    (pc = "disrupt" /\ Cardinality(Unlocked(placed_items)) >= 2) =>
        large_items(placed_items) # {}


\* C23: in the contained-items reflow neither swapped item is moved again,
\* and every key passed to move_item, in the swap and in both reflows,
\* resolves to a placement that is in the layout at the time of the call.
C23_ReflowKeysLive ==
    [][/\ pc \in {"disrupt", "reflow1", "reflow2"} =>
              \A i \in 1..Len(moved') : moved'[i].live
       /\ pc \in {"reflow1", "reflow2"} =>
              /\ \A i \in 1..Len(moved') : moved'[i].pk \notin {swap.pk1, swap.pk2}
              /\ swap.pk1 \in DOMAIN placed_items'
              /\ swap.pk2 \in DOMAIN placed_items'
              /\ placed_items'[swap.pk1].d_transf = swap.dt1_new
              /\ placed_items'[swap.pk2].d_transf = swap.dt2_new]_vars

C23_Witness ==
    /\ pc = "expl_loop"
    /\ inst = 7
    /\ Len(moved) >= 1
    /\ \A i \in 1..Len(moved) : moved[i].live /\ moved[i].pk \in {<<1, 0>>, <<2, 0>>, <<3, 0>>}
    /\ Cardinality({k \in DOMAIN placed_items : k[2] = 1}) = 3


\* C24: in compression_phase the best solution's width never increases: a
\* failed attempt leaves best_sol unchanged and adds exactly 1 to
\* n_failed_attempts; a successful attempt replaces best_sol by the reported
\* snapshot, of width best.width * (1 - step) < best.width, and leaves
\* n_failed_attempts unchanged.
C24_BestWidthDecreases ==
    [][/\ pc \in {"compress", "cmpr_shrink"} =>
              best_sol'.strip_width <= best_sol.strip_width
       /\ (pc = "cmpr_shrink" /\ pc' = "compress") =>
              IF reports'.kind = "CmprFeas"
              THEN /\ best_sol' = reports'.sol
                   /\ best_sol'.strip_width =
                          cmpr_new_width(best_sol.strip_width,
                                         shrink_step_size(n_failed_attempts, elapsed))
                   /\ best_sol'.strip_width < best_sol.strip_width
                   /\ n_failed_attempts' = n_failed_attempts
              ELSE /\ best_sol' = best_sol
                   /\ n_failed_attempts' = n_failed_attempts + 1
       /\ (pc = "compress" /\ pc' # "cmpr_shrink") =>
              (best_sol' = best_sol /\ n_failed_attempts' = n_failed_attempts)]_vars

\* a success after a failure: two CmprFeas widths below the initial one
C24_Witness ==
    /\ pc = "compress"
    /\ reports.kind = "CmprFeas"
    /\ n_failed_attempts >= 1
    /\ best_sol = reports.sol
    /\ best_sol.strip_width < instance.fixed_height


\* the layouts an attempt can end in when it starts from best_sol: shrink at a
\* split position in [0, best width), then separate
AttemptOutcomes ==
    LET w == best_sol.strip_width
        new_w == cmpr_new_width(w, shrink_step_size(n_failed_attempts, elapsed))
    IN  UNION {SeparateOutcomes(change_strip_width(best_sol.placed_items, w, new_w,
                                                   Some(split_pos)), new_w, new_w) :
               split_pos \in 0..(w - 1)}

\* C25: every compression attempt starts from the current best solution:
\* before the shrink the separator holds best_sol's layout with width and
\* fixed_height both equal to best_sol's width, whatever the previous attempt
\* left; the attempt then runs at width best width * (1 - step), shrunk at a
\* split position in [0, best width).
C25_AttemptFromBest ==
    [][/\ pc' = "cmpr_shrink" =>
              /\ placed_items' = best_sol'.placed_items
              /\ strip_width' = best_sol'.strip_width
              /\ fixed_height' = best_sol'.strip_width
       /\ (pc = "cmpr_shrink" /\ pc' = "compress") =>
              /\ strip_width' = cmpr_new_width(best_sol.strip_width,
                                               shrink_step_size(n_failed_attempts, elapsed))
              /\ fixed_height' = strip_width'
              /\ placed_items' \in AttemptOutcomes]_vars

\* an attempt starts from best_sol after a failed attempt left another layout
C25_Witness ==
    /\ pc = "cmpr_shrink"
    /\ n_failed_attempts >= 1
    /\ placed_items = best_sol.placed_items
    /\ strip_width = best_sol.strip_width
    /\ fixed_height = best_sol.strip_width
    /\ Unlocked(placed_items) # {}


\* r_max * decay^n
FailureBasedStep(n) == ShrinkRangeMax \div Pow(FailDecayDen, n)

\* the number of failures after which r_max * decay^n is below r_min
FailureBound ==
    CHOOSE n \in 0..ShrinkRangeMax :
        /\ FailureBasedStep(n) < ShrinkRangeMin
        /\ \A m \in 0..(n - 1) : FailureBasedStep(m) >= ShrinkRangeMin

\* C26: under FailureBased(decay) an attempt runs only while
\* r_max * decay^n_failed_attempts >= r_min, so the loop runs no attempt after
\* a bounded number of failures, terminator or not; the step of an attempt
\* depends only on the number of failures so far.
C26_FailureBasedBounded ==
    [][cfg.early_termination =>
          /\ pc' = "cmpr_shrink" =>
                 /\ FailureBasedStep(n_failed_attempts') >= ShrinkRangeMin
                 /\ n_failed_attempts' < FailureBound
          /\ pc' \in {"compress", "done"} => n_failed_attempts' <= FailureBound
          /\ (pc = "cmpr_shrink" /\ pc' = "compress") =>
                 strip_width' = cmpr_new_width(best_sol.strip_width,
                                               FailureBasedStep(n_failed_attempts))]_vars

\* the loop ended on the step alone, after a success and the failures
C26_Witness ==
    /\ cfg.early_termination
    /\ pc = "done"
    /\ ~kill
    /\ n_failed_attempts = FailureBound
    /\ best_sol.strip_width < instance.fixed_height


\* the placement a step of the constructor added, if it added exactly one
AddedKeys == DOMAIN placed_items' \ DOMAIN placed_items

\* C27: the greedy constructor places a free unit only at a transformation
\* that evaluates Clear (inside the strip, clear of every placed item); on
\* any other search outcome it widens the strip by 1.2 and retries the same
\* unit; it never moves or removes a placed item, and it aborts on the
\* run-away assertion instead of widening without bound.
C27_GreedyPlacesClear ==
    [][(pc = "place" /\ pc' # "explore") =>
          /\ \A j \in DOMAIN placed_items :
                 j \in DOMAIN placed_items' /\ placed_items'[j] = placed_items[j]
          /\ IF placed_items' # placed_items
             THEN /\ Cardinality(AddedKeys) = 1
                  /\ \A k \in AddedKeys :
                        /\ placed_items'[k].item_id = Head(to_place)
                        /\ ~placed_items'[k].is_locked
                        /\ BoundaryOverlap(placed_items'[k], strip_width, fixed_height) = 0
                        /\ \A j \in DOMAIN placed_items :
                               PairOverlap(placed_items'[k], placed_items[j]) = 0
                  /\ to_place' = Tail(to_place)
                  /\ strip_width' = strip_width
                  /\ pc' = "place"
             ELSE /\ 10 * strip_width' \in (12 * strip_width - 5)..(12 * strip_width + 5)
                  /\ to_place' = to_place
                  /\ item_demand_qtys' = item_demand_qtys
                  /\ pc' = IF strip_width' <= StripWidthCeiling * instance.width
                           THEN "place" ELSE "panic"
          /\ pc' = "place" => strip_width' <= StripWidthCeiling * instance.width]_vars

\* a unit placed clear in the part of the strip a widening added
C27_Witness ==
    /\ pc = "place"
    /\ strip_width > instance.width
    /\ \E k \in Unlocked(placed_items) :
          /\ XMax(placed_items[k]) > instance.width
          /\ BoundaryOverlap(placed_items[k], strip_width, fixed_height) = 0


\* SPInstance::total_item_qty: the sum of the declared quantities
RECURSIVE QtyFrom(_)
QtyFrom(id) == IF id > Len(items) THEN 0 ELSE items[id].qty + QtyFrom(id + 1)

total_item_qty == QtyFrom(1)

\* the number of units of item id in a list of units
UnitsOf(units, id) == Cardinality({i \in 1..Len(units) : units[i] = id})

\* C28: the units the constructor still has to place are in order of
\* decreasing convex_hull_area * diameter and are as many, per item, as the
\* demand left after the fixed items were enforced; when construct returns no
\* demand is left, every item has as many placements as its declared quantity,
\* the layout holds total_item_qty placements and no fixed unit is there twice.
C28_EveryUnitPlacedOnce ==
    /\ pc = "place" =>
          /\ \A i, j \in 1..Len(to_place) :
                 i < j => Largeness2(to_place[i]) >= Largeness2(to_place[j])
          /\ \A id \in ItemIds : UnitsOf(to_place, id) = item_demand_qtys[id]
    /\ pc = "explore" =>
          /\ \A id \in ItemIds :
                 /\ item_demand_qtys[id] = 0
                 /\ CountOf(placed_items, id) = items[id].qty
                 /\ Cardinality({k \in DOMAIN placed_items :
                                   /\ placed_items[k].item_id = id
                                   /\ placed_items[k].is_locked}) <= 1
          /\ Cardinality(DOMAIN placed_items) = total_item_qty

\* construct returned for an item of quantity 3 with a fixed placement: one
\* locked unit and two free ones
C28_Witness ==
    /\ pc = "explore"
    /\ \E id \in ItemIds :
          /\ IsSome(items[id].fixed_placement)
          /\ items[id].qty > 1
          /\ CountOf(placed_items, id) = items[id].qty
          /\ \E k \in Unlocked(placed_items) : placed_items[k].item_id = id


\* the placements of item id in a layout
PlacementsOf(pis, id) == {k \in DOMAIN pis : pis[k].item_id = id}

\* C29: enforce_fixed_items acts on the empty layout, before any free item is
\* placed; for each item with a fixed placement and demand left it creates
\* exactly one placement, at the declared transformation and locked, and takes
\* exactly one unit off that item's demand; an item with a fixed placement
\* and no demand, and an item without a fixed placement, gets no placement and
\* keeps its demand; and no placement of an item without a fixed placement is
\* locked in any state.
C29_FixedItemsEnforced ==
    /\ [][pc = "construct" =>
            /\ placed_items = <<>>
            /\ pc' = "place"
            /\ ~searched'
            /\ \A id \in ItemIds :
                  IF IsSome(items[id].fixed_placement) /\ item_demand_qtys[id] > 0
                  THEN /\ Cardinality(PlacementsOf(placed_items', id)) = 1
                       /\ \A k \in PlacementsOf(placed_items', id) :
                             /\ placed_items'[k].d_transf = Unwrap(items[id].fixed_placement)
                             /\ placed_items'[k].is_locked
                       /\ item_demand_qtys'[id] = item_demand_qtys[id] - 1
                  ELSE /\ PlacementsOf(placed_items', id) = {}
                       /\ item_demand_qtys'[id] = item_demand_qtys[id]]_vars
    /\ [](\A k \in DOMAIN placed_items :
              placed_items[k].is_locked =>
                  IsSome(items[placed_items[k].item_id].fixed_placement))

\* fixed items enforced on an instance that has a fixed item with demand and
\* a fixed item without demand
C29_Witness ==
    /\ pc = "place"
    /\ ~searched
    /\ \E id \in ItemIds :
          /\ IsSome(items[id].fixed_placement) /\ items[id].qty > 0
          /\ \E k \in PlacementsOf(placed_items, id) : placed_items[k].is_locked
    /\ \E id \in ItemIds :
          /\ IsSome(items[id].fixed_placement) /\ items[id].qty = 0
          /\ PlacementsOf(placed_items, id) = {}


\* the evaluation of the reference placement's current transformation
RefEval == evaluate_sample(search_in, Unwrap(search_in.ref), None)

\* a search with a reference key and a buffer that can hold a sample has returned
RefSearchDone ==
    /\ pc = "search_done"
    /\ IsSome(search_in.ref)
    /\ search_in.n_coord_descents >= 1

\* C30: with a reference key and a buffer capacity of at least 1,
\* search_placement returns a sample whenever the reference transformation
\* does not evaluate Invalid, returns None only when every sample evaluates
\* Invalid, and a returned evaluation is never worse than the evaluation of
\* the reference transformation.
C30_NoWorseThanReference ==
    RefSearchDone =>
        /\ RefEval.kind # "Invalid" => FinalSample # None
        /\ FinalSample = None => AllSamplesInvalid
        /\ FinalSample # None => ~EvalLess(RefEval, Unwrap(FinalSample).eval)

\* C30 as stated: with a reference key and capacity at least 1 the search
\* always returns a sample, no worse than the reference transformation.
C30_AlwaysSomeWithReference ==
    RefSearchDone =>
        /\ FinalSample # None
        /\ ~EvalLess(RefEval, Unwrap(FinalSample).eval)

\* a search around a colliding reference placement that returned a better sample
C30_Witness ==
    /\ RefSearchDone
    /\ RefEval.kind = "Collision"
    /\ samples # <<>> /\ samples[1] = Unwrap(search_in.ref)
    /\ FinalSample # None
    /\ EvalLess(Unwrap(FinalSample).eval, RefEval)


\* the workers whose job holds an evaluator
Evaluating == {w \in 1..NWorkers : evaluators[w] # 0}

\* C31: during the parallel evaluation no evaluator is held by two workers at
\* once and every evaluator in use came from the factory; a worker's step
\* leaves the layout, the samples, the generator and the best-samples buffer
\* alone and only stores, for the sample it took, the evaluation computed
\* without an upper bound; and in parallel mode the buffer is written only by
\* the driver, once every sample of the batch is evaluated and no worker is busy.
C31_WorkersIsolated ==
    /\ [](pc = "search_eval" =>
            /\ \A w \in 1..NWorkers : workers[w] # 0 => w \in Evaluating
            /\ \A w \in Evaluating :
                  /\ evaluators[w] \in 1..n_factory_calls
                  /\ \A v \in Evaluating : v # w => evaluators[v] # evaluators[w])
    /\ [][(pc = "search_eval" /\ pc' = "search_eval") =>
            /\ best_samples' = best_samples
            /\ placed_items' = placed_items
            /\ strip_width' = strip_width
            /\ samples' = samples
            /\ rng' = rng
            /\ \A i \in 1..Len(samples) :
                  evals'[i] # evals[i] =>
                     /\ evals[i] = None
                     /\ \E w \in 1..NWorkers : workers[w] = i /\ workers'[w] = 0
                     /\ evals'[i] = Some(evaluate_sample(search_in, samples[i], None))]_vars
    /\ [][(search_in.parallel /\ best_samples' # best_samples) =>
            /\ pc = "search_eval"
            /\ \A i \in 1..Len(samples) : evals[i] # None
            /\ \A w \in 1..NWorkers : workers[w] = 0]_vars

\* two workers evaluating different samples, each with its own evaluator,
\* after an evaluation has already finished
C31_Witness ==
    /\ pc = "search_eval"
    /\ \A w \in 1..NWorkers : workers[w] # 0
    /\ \E v, w \in Evaluating : v # w /\ workers[v] # workers[w]
    /\ completed # <<>>
    /\ best_samples = <<>>


\* the positions inside the loop of exploration_phase
InExploration(p) == p \in {"expl_loop", "expl_rollback", "disrupt", "reflow1", "reflow2"}

\* the loop test of exploration_phase with the terminator reporting kill: the
\* phase returns, no separate call is started and the layout is left alone
KillStopsExploration ==
    [][(pc = "expl_loop" /\ kill) =>
          /\ pc' = "expl_end"
          /\ placed_items' = placed_items
          /\ strip_width' = strip_width
          /\ feasible_sols' = feasible_sols
          /\ reports' = NoReport]_vars

\* the loop test of compression_phase with the terminator reporting kill: no
\* attempt and no separate call is started and the phase returns
KillStopsCompression ==
    [][(pc = "compress" /\ kill) =>
          /\ pc' \in {"compress", "done"}
          /\ placed_items' = placed_items
          /\ strip_width' = strip_width
          /\ best_sol' = best_sol
          /\ n_failed_attempts' = n_failed_attempts
          /\ reports' = NoReport
          /\ ENABLED CmprReturn]_vars

\* exploration_phase is left only through its loop test, on kill
OnlyKillEndsExploration ==
    [][(InExploration(pc) /\ ~InExploration(pc')) => (kill /\ pc' = "expl_end")]_vars

\* C32: once the terminator reports kill, exploration_phase and
\* compression_phase start no new separate call and return at their loop
\* test, and the terminator is the only way exploration_phase ends.
C32_CooperativeTermination ==
    /\ KillStopsExploration
    /\ KillStopsCompression
    /\ OnlyKillEndsExploration

====
